---- MODULE Spec2Model ----
(***************************************************************************)
(* Model of src/xrt/compositor/render/render_compute.c: the compute based  *)
(* rendering code of the compositor.  The state is one render_compute      *)
(* context, the render_resources it borrows (descriptor pool, command      *)
(* buffer, uniform buffers) and the dispatch-geometry helpers.             *)
(*                                                                         *)
(* assert() is modelled as compiled in (no NDEBUG): a failed assertion     *)
(* aborts the process, which is status = "aborted".                        *)
(***************************************************************************)
EXTENDS Integers, Sequences, FiniteSets, TLC

(***************************************************************************)
(* Program constants.                                                      *)
(***************************************************************************)
XRT_MAX_VIEWS == 2
RENDER_MAX_LAYER_RUNS_COUNT == 2
\* The work-group tile edge, the literal 8 handed to uint_divide_and_round_up.
TileSize == 8
\* uint32_t is kept as two 16-bit limbs <<hi, lo>>: value = hi * LimbBase + lo.
LimbBase == 65536

(***************************************************************************)
(* Bounds of the model.                                                    *)
(***************************************************************************)
\* Extents 0..MaxSmallExtent are enumerated at the low end of uint32_t.
MaxSmallExtent == 17
\* Extents 2^32-1-MaxTopOffset..2^32-1 are enumerated at the high end.
MaxTopOffset == 9
\* Pass calls (layers, projection, projection_timewarp, clear) in one run.
MaxPasses == 2
\* Head orientations told apart: a pose is a rotation by 0..PoseSteps-1 steps
\* of a full turn about one axis.
PoseSteps == 4
\* The capacity of the source arrays handed to the layers pass; the header that
\* sets it is not part of this file, so it is scaled to a small capacity.
RENDER_MAX_IMAGES_SIZE == 2

(***************************************************************************)
(* uint32_t arithmetic on limbs.                                           *)
(***************************************************************************)
U32(hi, lo) == <<hi, lo>>

U32Zero == U32(0, 0)

U32Small(n) == U32(n \div LimbBase, n % LimbBase)

\* a + n for a small n >= 0, wrapping modulo 2^32 as unsigned addition does.
U32AddSmall(a, n) ==
    LET lo == a[2] + n
        hi == a[1] + (lo \div LimbBase)
    IN  U32(hi % LimbBase, lo % LimbBase)

\* a / n for a small n > 0 (unsigned division truncates).
U32DivSmall(a, n) ==
    LET rem == a[1] % n
    IN  U32(a[1] \div n, (rem * LimbBase + a[2]) \div n)

U32Gt(a, b) == a[1] > b[1] \/ (a[1] = b[1] /\ a[2] > b[2])

(***************************************************************************)
(* Exact (unbounded) arithmetic on limb pairs, for stating properties: the *)
(* high limb is not reduced, so nothing wraps.                             *)
(***************************************************************************)
WideMulSmall(a, n) ==
    LET lo == a[2] * n
    IN  <<a[1] * n + (lo \div LimbBase), lo % LimbBase>>

WideAddSmall(a, n) ==
    LET lo == a[2] + n
    IN  <<a[1] + (lo \div LimbBase), lo % LimbBase>>

WideGe(a, b) == a[1] > b[1] \/ (a[1] = b[1] /\ a[2] >= b[2])

WideLt(a, b) == ~WideGe(a, b)

(***************************************************************************)
(* Helper functions (render_compute.c:33-74).                              *)
(***************************************************************************)
\* Division without the rounding up.
uint_divide_and_round_up_floor(a, b) == U32DivSmall(a, b)

uint_divide_and_round_up(a, b) == U32DivSmall(U32AddSmall(a, b - 1), b)

calc_dispatch_dims_1_view(view) ==
    [w |-> uint_divide_and_round_up(view.w, TileSize),
     h |-> uint_divide_and_round_up(view.h, TileSize)]

IMAX(a, b) == IF U32Gt(a, b) THEN a ELSE b

\* The loop of calc_dispatch_dims_views after i iterations: the running maxima.
RECURSIVE ViewsMax(_, _)
ViewsMax(views, i) ==
    IF i = 0
    THEN [w |-> U32Zero, h |-> U32Zero]
    ELSE LET m == ViewsMax(views, i - 1)
         IN  [w |-> IMAX(m.w, views[i].w), h |-> IMAX(m.h, views[i].h)]

\* The maxima taken over the first view alone.
calc_dispatch_dims_views_first_only(views, view_count) ==
    LET m == ViewsMax(views, IF view_count > 0 THEN 1 ELSE 0)
    IN  [w |-> uint_divide_and_round_up(m.w, TileSize),
         h |-> uint_divide_and_round_up(m.h, TileSize)]

calc_dispatch_dims_views(views, view_count) ==
    LET m == ViewsMax(views, view_count)
    IN  [w |-> uint_divide_and_round_up(m.w, TileSize),
         h |-> uint_divide_and_round_up(m.h, TileSize)]

(***************************************************************************)
(* State.                                                                  *)
(***************************************************************************)
VARIABLES
    r,                      \* render->r: "NULL" or "R" (the render_resources)
    layer_descriptor_sets,  \* render->layer_descriptor_sets[]: handles, 0 = VK_NULL_HANDLE
    shared_descriptor_set,  \* render->shared_descriptor_set: a handle
    view_count,             \* r->view_count, fixed for the resources
    pool,                   \* r->compute.descriptor_pool: the handles allocated from it
    sets,                   \* GPU-visible contents of every descriptor set, by handle
    ubo_distortion,         \* r->compute.distortion.ubo.mapped
    ubo_clear,              \* r->compute.clear.ubo.mapped
    cmd,                    \* r->cmd: [state, cmds, open, stray] (open = recording scopes begun, not ended)
    status,                 \* "running", "aborted" (assert failed) or "crashed" (invalid access)
    call,                   \* the last call made: [op, ret, args]
    npasses,                \* pass calls made so far
    at_init,                \* the last init: [pool_count] on entry, [ret], [live] until fini, [passes] since
    g_views,                \* geometry check: input viewports
    g_count,                \* geometry check: number of active viewports
    g_out,                  \* geometry check: [fn, dims] of the last calculation
    gpu                     \* the queue: [in_flight, cmds] of the frame the GPU is executing

vars == <<r, layer_descriptor_sets, shared_descriptor_set, view_count, pool, sets,
          ubo_distortion, ubo_clear, cmd, status, call, npasses,
          at_init, g_views, g_count, g_out, gpu>>

ctx_vars == <<r, layer_descriptor_sets, shared_descriptor_set>>
geom_vars == <<g_views, g_count, g_out>>
env_vars == <<gpu>>

(***************************************************************************)
(* Values.                                                                 *)
(***************************************************************************)
VK_NULL_HANDLE == 0

\* The descriptor pool holds one set per layer run plus the shared one.
Handles == 1..(RENDER_MAX_LAYER_RUNS_COUNT + 1)

Max2(a, b) == IF a > b THEN a ELSE b

SrcSlots == 1..Max2(RENDER_MAX_IMAGES_SIZE, XRT_MAX_VIEWS)
DistortionSlots == 1..(3 * XRT_MAX_VIEWS)
ViewSlots == 1..XRT_MAX_VIEWS

\* A VkDescriptorImageInfo; NoImageInfo is an entry nothing was written to.
ImageInfo(sampler, imageView, imageLayout) ==
    [sampler |-> sampler, imageView |-> imageView, imageLayout |-> imageLayout]

NoImageInfo == ImageInfo("none", "none", "none")

\* A VkDescriptorBufferInfo.
BufferInfo(buffer, range) == [buffer |-> buffer, offset |-> 0, range |-> range]

NoBufferInfo == [buffer |-> "none", offset |-> 0, range |-> "none"]

\* A descriptor set as allocated: no binding written.
FreshSet ==
    [src |-> [i \in SrcSlots |-> NoImageInfo],
     distortion |-> [i \in DistortionSlots |-> NoImageInfo],
     target |-> NoImageInfo,
     ubo |-> NoBufferInfo]

Viewport(w, h) == [w |-> w, h |-> h]

\* struct render_compute_distortion_ubo_data before anything was written to it.
Unwritten == [unwritten |-> TRUE]

FreshUbo ==
    [views |-> [i \in ViewSlots |-> Unwritten],
     pre_transforms |-> [i \in ViewSlots |-> Unwritten],
     transforms |-> [i \in ViewSlots |-> Unwritten],
     post_transforms |-> [i \in ViewSlots |-> Unwritten]]

(***************************************************************************)
(* Recorded commands: one record shape for every vkCmd* call.              *)
(***************************************************************************)
NoCmd ==
    [op |-> "none", image |-> "none", srcAccess |-> "none", dstAccess |-> "none",
     oldLayout |-> "none", newLayout |-> "none", pipeline |-> "none",
     layout |-> "none", set |-> VK_NULL_HANDLE, x |-> U32Zero, y |-> U32Zero,
     z |-> 0, stage |-> "none", query |-> 0, queryCount |-> 0]

CmdResetQueryPool(firstQuery, queryCount) ==
    [NoCmd EXCEPT !.op = "ResetQueryPool", !.query = firstQuery,
                  !.queryCount = queryCount]

CmdWriteTimestamp(stage, query) ==
    [NoCmd EXCEPT !.op = "WriteTimestamp", !.stage = stage, !.query = query]

CmdImageBarrier(image, srcAccess, dstAccess, oldLayout, newLayout) ==
    [NoCmd EXCEPT !.op = "PipelineBarrier", !.image = image,
                  !.srcAccess = srcAccess, !.dstAccess = dstAccess,
                  !.oldLayout = oldLayout, !.newLayout = newLayout]

CmdBindPipeline(pipeline) ==
    [NoCmd EXCEPT !.op = "BindPipeline", !.pipeline = pipeline]

CmdBindDescriptorSets(layout, set) ==
    [NoCmd EXCEPT !.op = "BindDescriptorSets", !.layout = layout, !.set = set]

CmdDispatch(x, y, z) ==
    [NoCmd EXCEPT !.op = "Dispatch", !.x = x, !.y = y, !.z = z]

\* Recording into r->cmd.  cmds holds what was recorded in the recording
\* state.  Recording into a command buffer that is not in the recording state is
\* invalid usage: the driver may drop the commands, or write them into the
\* buffer's storage all the same (a stray recording, which stays until the
\* command pool is reset).
Recorded(cb, cs) ==
    IF cb.state = "recording" \/ cs = <<>>
    THEN {[cb EXCEPT !.cmds = cb.cmds \o cs]}
    ELSE {cb, [cb EXCEPT !.stray = TRUE]}

FreshCmd == [state |-> "initial", cmds |-> <<>>, open |-> 0, stray |-> FALSE]

(***************************************************************************)
(* The Vulkan calls the lifecycle functions make.                          *)
(***************************************************************************)
\* vk_create_descriptor_set: the pool hands out a free handle.
vk_create_descriptor_set(p) == CHOOSE h \in Handles \ p : \A k \in Handles \ p : h <= k

\* vkResetCommandPool: every buffer of the pool returns to the initial state.
vkResetCommandPool(cb) == FreshCmd

\* vkBeginCommandBuffer: opens a recording scope.
vkBeginCommandBuffer(cb) == [cb EXCEPT !.state = "recording", !.open = cb.open + 1]

\* vkEndCommandBuffer: closes the recording scope; a failure leaves the buffer invalid.
vkEndCommandBuffer(cb, ok) ==
    [cb EXCEPT !.state = IF ok THEN "executable" ELSE "invalid",
               !.open = IF cb.open > 0 THEN cb.open - 1 ELSE 0]

\* vkResetDescriptorPool: every set of the pool is freed.
\* The pool left as it is.
vkResetDescriptorPool_none(p) == p

vkResetDescriptorPool(p) == {}

(***************************************************************************)
(* render_compute_init (render_compute.c:288-319).                         *)
(* fail_at = 0: every allocation succeeds; fail_at = k: the k-th           *)
(* vk_create_descriptor_set call fails (the shared one is the last).       *)
(***************************************************************************)
\* The loop over the layer descriptor sets from iteration i on.
RECURSIVE init_layer_loop(_, _, _, _)
init_layer_loop(i, p, lds, fail_at) ==
    IF i > RENDER_MAX_LAYER_RUNS_COUNT
    THEN [ok |-> TRUE, pool |-> p, lds |-> lds]
    ELSE IF fail_at = i \/ Handles \ p = {}
         THEN [ok |-> FALSE, pool |-> p, lds |-> lds]
         ELSE LET h == vk_create_descriptor_set(p)
              IN  init_layer_loop(i + 1, p \cup {h}, [lds EXCEPT ![i] = h], fail_at)

\* What init leaves behind: [ret, r, pool, lds, shared].
init_result(p, lds, shared, fail_at) ==
    LET l == init_layer_loop(1, p, lds, fail_at)
    IN  IF ~l.ok
        THEN [ret |-> FALSE, r |-> "R", pool |-> l.pool, lds |-> l.lds,
              shared |-> shared]
        ELSE IF fail_at = RENDER_MAX_LAYER_RUNS_COUNT + 1 \/ Handles \ l.pool = {}
             THEN [ret |-> FALSE, r |-> "R", pool |-> l.pool, lds |-> l.lds,
                   shared |-> shared]
             ELSE LET h == vk_create_descriptor_set(l.pool)
                  IN  [ret |-> TRUE, r |-> "R", pool |-> l.pool \cup {h},
                       lds |-> l.lds, shared |-> h]

\* inputs: the results the Vulkan calls the function reached were given.
Lifecycle(op, ret, inputs) ==
    /\ status = "running"
    /\ call' = [op |-> op, ret |-> ret,
                args |-> [attached_before |-> r # "NULL", open_before |-> cmd.open,
                          inputs |-> inputs]]
    /\ UNCHANGED <<npasses, view_count, geom_vars, env_vars>>

render_compute_init(fail_at) ==
    IF r # "NULL"
    THEN \* assert(render->r == NULL)
         /\ Lifecycle("init", "abort", [none |-> TRUE])
         /\ status' = "aborted"
         /\ UNCHANGED <<ctx_vars, pool, sets, ubo_distortion, ubo_clear, cmd,
                        at_init>>
    ELSE LET res == init_result(pool, layer_descriptor_sets, shared_descriptor_set,
                                fail_at)
         IN  /\ Lifecycle("init", IF res.ret THEN "true" ELSE "false", [fail_at |-> fail_at])
             /\ r' = res.r
             /\ pool' = res.pool
             /\ layer_descriptor_sets' = res.lds
             /\ shared_descriptor_set' = res.shared
             /\ at_init' = [pool_count |-> Cardinality(pool), passes |-> FALSE,
                             ret |-> res.ret, live |-> res.ret]
             /\ UNCHANGED <<sets, ubo_distortion, ubo_clear, cmd, status>>

(***************************************************************************)
(* render_compute_begin (render_compute.c:321-353).                        *)
(***************************************************************************)
\* The command buffer after begin, and what begin returns.
\* begin without the reset of the command pool.
begin_result_no_reset(cb, reset_ok, begin_ok) ==
    IF ~reset_ok
    THEN [ret |-> FALSE, cmd |-> cb]
    ELSE IF ~begin_ok
         THEN [ret |-> FALSE, cmd |-> cb]
         ELSE LET b == vkBeginCommandBuffer(cb)
              IN  [ret |-> TRUE,
                   cmd |-> [b EXCEPT !.cmds =
                               b.cmds \o <<CmdResetQueryPool(0, 2),
                                           CmdWriteTimestamp("TOP_OF_PIPE", 0)>>]]

\* begin with the timestamp recorded ahead of the query pool reset.
begin_result_timestamp_first(cb, reset_ok, begin_ok) ==
    IF ~reset_ok
    THEN [ret |-> FALSE, cmd |-> cb]
    ELSE LET c0 == vkResetCommandPool(cb)
         IN  IF ~begin_ok
             THEN [ret |-> FALSE, cmd |-> c0]
             ELSE LET b == vkBeginCommandBuffer(c0)
                  IN  [ret |-> TRUE,
                       cmd |-> [b EXCEPT !.cmds =
                                   b.cmds \o <<CmdWriteTimestamp("TOP_OF_PIPE", 0),
                                               CmdResetQueryPool(0, 2)>>]]

begin_result(cb, reset_ok, begin_ok) ==
    IF ~reset_ok
    THEN [ret |-> FALSE, cmd |-> cb]
    ELSE LET c0 == vkResetCommandPool(cb)
         IN  IF ~begin_ok
             THEN [ret |-> FALSE, cmd |-> c0]
             ELSE LET b == vkBeginCommandBuffer(c0)
                  IN  [ret |-> TRUE,
                       cmd |-> [b EXCEPT !.cmds =
                                   b.cmds \o <<CmdResetQueryPool(0, 2),
                                               CmdWriteTimestamp("TOP_OF_PIPE", 0)>>]]

render_compute_begin(reset_ok, begin_ok) ==
    IF r = "NULL"
    THEN \* vk_from_render reads through the null render->r
         /\ Lifecycle("begin", "crash", [none |-> TRUE])
         /\ status' = "crashed"
         /\ UNCHANGED <<ctx_vars, pool, sets, ubo_distortion, ubo_clear, cmd,
                        at_init>>
    ELSE LET res == begin_result(cmd, reset_ok, begin_ok)
         IN  /\ Lifecycle("begin", IF res.ret THEN "true" ELSE "false",
                           [failed |-> IF ~reset_ok THEN "vkResetCommandPool"
                                       ELSE IF ~begin_ok THEN "vkBeginCommandBuffer"
                                       ELSE "none"])
             /\ cmd' = res.cmd
             /\ UNCHANGED <<ctx_vars, pool, sets, ubo_distortion, ubo_clear, status,
                            at_init>>

(***************************************************************************)
(* render_compute_end (render_compute.c:355-371).                          *)
(***************************************************************************)
\* end with the scope closed ahead of the timestamp.
end_result_close_first(cb, end_ok) ==
    Recorded(vkEndCommandBuffer(cb, end_ok),
             <<CmdWriteTimestamp("BOTTOM_OF_PIPE", 1)>>)

\* end writing its timestamp into the query slot of begin.
end_result_slot_0(cb, end_ok) ==
    {vkEndCommandBuffer(c1, end_ok) :
        c1 \in Recorded(cb, <<CmdWriteTimestamp("BOTTOM_OF_PIPE", 0)>>)}

\* The command buffer after end: the timestamp, then vkEndCommandBuffer.
end_result(cb, end_ok) ==
    {vkEndCommandBuffer(c1, end_ok) :
        c1 \in Recorded(cb, <<CmdWriteTimestamp("BOTTOM_OF_PIPE", 1)>>)}

render_compute_end(end_ok) ==
    IF r = "NULL"
    THEN /\ Lifecycle("end", "crash", [none |-> TRUE])
         /\ status' = "crashed"
         /\ UNCHANGED <<ctx_vars, pool, sets, ubo_distortion, ubo_clear, cmd,
                        at_init>>
    ELSE /\ Lifecycle("end", IF end_ok THEN "true" ELSE "false",
                      [failed |-> IF end_ok THEN "none" ELSE "vkEndCommandBuffer"])
         /\ cmd' \in end_result(cmd, end_ok)
         /\ UNCHANGED <<ctx_vars, pool, sets, ubo_distortion, ubo_clear, status,
                        at_init>>

(***************************************************************************)
(* render_compute_fini (render_compute.c:373-389).                         *)
(***************************************************************************)
\* fini that leaves the descriptor set handles in the context.
render_compute_fini_keeps_handles ==
    IF r = "NULL"
    THEN /\ Lifecycle("fini", "abort", [none |-> TRUE])
         /\ status' = "aborted"
         /\ UNCHANGED <<ctx_vars, pool, sets, ubo_distortion, ubo_clear, cmd,
                        at_init>>
    ELSE /\ Lifecycle("fini", "void", [none |-> TRUE])
         /\ pool' = vkResetDescriptorPool(pool)
         /\ sets' = [h \in Handles |->
                        IF h \in pool' THEN sets[h] ELSE FreshSet]
         /\ r' = "NULL"
         /\ at_init' = [at_init EXCEPT !.live = FALSE]
         /\ UNCHANGED <<layer_descriptor_sets, shared_descriptor_set,
                        ubo_distortion, ubo_clear, cmd, status>>

render_compute_fini ==
    IF r = "NULL"
    THEN \* assert(render->r != NULL)
         /\ Lifecycle("fini", "abort", [none |-> TRUE])
         /\ status' = "aborted"
         /\ UNCHANGED <<ctx_vars, pool, sets, ubo_distortion, ubo_clear, cmd,
                        at_init>>
    ELSE /\ Lifecycle("fini", "void", [none |-> TRUE])
         /\ shared_descriptor_set' = VK_NULL_HANDLE
         /\ layer_descriptor_sets' =
                [i \in 1..RENDER_MAX_LAYER_RUNS_COUNT |-> VK_NULL_HANDLE]
         /\ pool' = vkResetDescriptorPool(pool)
         /\ sets' = [h \in Handles |->
                        IF h \in pool' THEN sets[h] ELSE FreshSet]
         /\ r' = "NULL"
         /\ at_init' = [at_init EXCEPT !.live = FALSE]
         /\ UNCHANGED <<ubo_distortion, ubo_clear, cmd, status>>

(***************************************************************************)
(* Vulkan helpers (render_compute.c:83-231).                               *)
(***************************************************************************)
\* The layer shape with a descriptorCount of the whole source array.
update_compute_layer_descriptor_set_all_slots(old, src_samplers, src_image_views, image_count, target_image_view, ubo_buffer, ubo_size) ==
    [old EXCEPT
        !.src = [i \in SrcSlots |->
                    IF i <= RENDER_MAX_IMAGES_SIZE
                    THEN ImageInfo(src_samplers[i], src_image_views[i],
                                   "SHADER_READ_ONLY_OPTIMAL")
                    ELSE old.src[i]],
        !.target = ImageInfo("none", target_image_view, "GENERAL"),
        !.ubo = BufferInfo(ubo_buffer, ubo_size)]

\* update_compute_layer_descriptor_set: one vkUpdateDescriptorSets call with
\* image_count source entries, the target and the uniform buffer.
update_compute_layer_descriptor_set(old, src_samplers, src_image_views, image_count, target_image_view, ubo_buffer, ubo_size) ==
    [old EXCEPT
        !.src = [i \in SrcSlots |->
                    IF i <= image_count
                    THEN ImageInfo(src_samplers[i], src_image_views[i],
                                   "SHADER_READ_ONLY_OPTIMAL")
                    ELSE old.src[i]],
        !.target = ImageInfo("none", target_image_view, "GENERAL"),
        !.ubo = BufferInfo(ubo_buffer, ubo_size)]

\* The target-only shape: what update_compute_descriptor_set_target writes.
update_compute_shared_descriptor_set_target_only(old, src_samplers, src_image_views, distortion_samplers, distortion_image_views, target_image_view, ubo_buffer, ubo_size, vc) ==
    [old EXCEPT
        !.target = ImageInfo("none", target_image_view, "GENERAL"),
        !.ubo = BufferInfo(ubo_buffer, ubo_size)]

\* update_compute_shared_descriptor_set: one vkUpdateDescriptorSets call with
\* view_count source entries, 3 * view_count distortion entries, the target
\* and the uniform buffer.
update_compute_shared_descriptor_set(old, src_samplers, src_image_views, distortion_samplers, distortion_image_views, target_image_view, ubo_buffer, ubo_size, vc) ==
    [old EXCEPT
        !.src = [i \in SrcSlots |->
                    IF i <= vc
                    THEN ImageInfo(src_samplers[i], src_image_views[i],
                                   "SHADER_READ_ONLY_OPTIMAL")
                    ELSE old.src[i]],
        !.distortion = [i \in DistortionSlots |->
                           IF i <= 3 * vc
                           THEN ImageInfo(distortion_samplers[i],
                                          distortion_image_views[i],
                                          "SHADER_READ_ONLY_OPTIMAL")
                           ELSE old.distortion[i]],
        !.target = ImageInfo("none", target_image_view, "GENERAL"),
        !.ubo = BufferInfo(ubo_buffer, ubo_size)]

(***************************************************************************)
(* Static resources read through render->r.                                *)
(***************************************************************************)
\* r->distortion.image_views[]
distortion_image_views == [i \in DistortionSlots |-> [distortion_image |-> i]]

\* r->distortion.uv_to_tanangle[]
uv_to_tanangle == [i \in ViewSlots |-> [uv_to_tanangle |-> i]]

\* The local distortion_samplers[] array of a pass: 3 entries per active view.
DistortionSamplers(sampler, vc) ==
    [i \in DistortionSlots |-> IF i <= 3 * vc THEN sampler ELSE "indeterminate"]

\* The rotation that takes the pose old to the pose new.
RelativePose(old, new) == (new + PoseSteps - old) % PoseSteps

\* The rotation that moves nothing.
IdentityPose == RelativePose(0, 0)

\* render_calc_time_warp_matrix: the composition of the projection of the
\* source fov with the relative rotation between the old and the new pose,
\* kept as its two factors.
render_calc_time_warp_matrix(src_pose, src_fov, new_pose) ==
    [projection |-> src_fov, relative |-> RelativePose(src_pose, new_pose)]

\* math_matrix_4x4_identity
IdentityMatrix == [matrix |-> "identity"]

(***************************************************************************)
(* The commands the passes record, in the order of the code.               *)
(***************************************************************************)
\* vk_cmd_image_barrier_gpu_locked(vk, r->cmd, target_image, 0,
\*     VK_ACCESS_SHADER_WRITE_BIT, VK_IMAGE_LAYOUT_UNDEFINED, VK_IMAGE_LAYOUT_GENERAL, ...)
PreBarrier(target_image) ==
    CmdImageBarrier(target_image, "0", "SHADER_WRITE", "UNDEFINED", "GENERAL")

\* The VkImageMemoryBarrier handed to vkCmdPipelineBarrier after the dispatch.
PostBarrier(target_image) ==
    CmdImageBarrier(target_image, "SHADER_WRITE", "MEMORY_READ", "GENERAL",
                    "PRESENT_SRC_KHR")

\* The layers pass dispatched with the depth of the shared passes.
layers_cmds_depth_2(pipeline, set, dims) ==
    <<CmdBindPipeline(pipeline),
      CmdBindDescriptorSets("layer.pipeline_layout", set),
      CmdDispatch(dims.w, dims.h, 2)>>

layers_cmds(pipeline, set, dims) ==
    <<CmdBindPipeline(pipeline),
      CmdBindDescriptorSets("layer.pipeline_layout", set),
      CmdDispatch(dims.w, dims.h, 1)>>

\* projection_timewarp binding the pipeline without time warp.
projection_timewarp_cmds_plain_pipeline(target_image, set, dims) ==
    <<PreBarrier(target_image),
      CmdBindPipeline("distortion.pipeline"),
      CmdBindDescriptorSets("distortion.pipeline_layout", set),
      CmdDispatch(dims.w, dims.h, 2),
      PostBarrier(target_image)>>

projection_timewarp_cmds(target_image, set, dims) ==
    <<PreBarrier(target_image),
      CmdBindPipeline("distortion.timewarp_pipeline"),
      CmdBindDescriptorSets("distortion.pipeline_layout", set),
      CmdDispatch(dims.w, dims.h, 2),
      PostBarrier(target_image)>>

\* The dispatch recorded ahead of the pre-barrier.
projection_cmds_dispatch_first(target_image, set, dims) ==
    <<CmdBindPipeline("distortion.pipeline"),
      CmdBindDescriptorSets("distortion.pipeline_layout", set),
      CmdDispatch(dims.w, dims.h, 2),
      PreBarrier(target_image),
      PostBarrier(target_image)>>

projection_cmds(target_image, set, dims) ==
    <<PreBarrier(target_image),
      CmdBindPipeline("distortion.pipeline"),
      CmdBindDescriptorSets("distortion.pipeline_layout", set),
      CmdDispatch(dims.w, dims.h, 2),
      PostBarrier(target_image)>>

\* The clear pass without its post-barrier.
clear_cmds_no_post_barrier(target_image, set, dims) ==
    <<PreBarrier(target_image),
      CmdBindPipeline("clear.pipeline"),
      CmdBindDescriptorSets("distortion.pipeline_layout", set),
      CmdDispatch(dims.w, dims.h, 2)>>

clear_cmds(target_image, set, dims) ==
    <<PreBarrier(target_image),
      CmdBindPipeline("clear.pipeline"),
      CmdBindDescriptorSets("distortion.pipeline_layout", set),
      CmdDispatch(dims.w, dims.h, 2),
      PostBarrier(target_image)>>

\* The commands of cs recorded before the first one whose op is in ops: what a
\* call has recorded when it stops there.
RECURSIVE Before(_, _)
Before(cs, ops) ==
    IF cs = <<>> \/ Head(cs).op \in ops
    THEN <<>>
    ELSE <<Head(cs)>> \o Before(Tail(cs), ops)

\* The steps of each pass function in the order of its statements: the writes
\* of the mapped uniform buffer, vkUpdateDescriptorSets and the dispatch
\* geometry calculation happen at the call, the others record a command.
layers_steps ==
    <<"update_descriptor_set", "bind_pipeline", "bind_descriptor_sets",
      "calc_dispatch_dims", "dispatch">>

projection_timewarp_steps ==
    <<"write_ubo", "pre_barrier", "update_descriptor_set", "bind_pipeline",
      "bind_descriptor_sets", "calc_dispatch_dims", "dispatch", "post_barrier">>

\* The descriptor update ahead of the pre-barrier.
projection_steps_update_first ==
    <<"write_ubo", "update_descriptor_set", "pre_barrier", "bind_pipeline",
      "bind_descriptor_sets", "calc_dispatch_dims", "dispatch", "post_barrier">>

projection_steps ==
    <<"write_ubo", "pre_barrier", "update_descriptor_set", "bind_pipeline",
      "bind_descriptor_sets", "calc_dispatch_dims", "dispatch", "post_barrier">>

clear_steps ==
    <<"write_ubo", "pre_barrier", "update_descriptor_set", "bind_pipeline",
      "bind_descriptor_sets", "calc_dispatch_dims", "dispatch", "post_barrier">>

\* The steps of a call that stops at step s: those ahead of it.
RECURSIVE StepsBefore(_, _)
StepsBefore(steps, s) ==
    IF steps = <<>> \/ Head(steps) = s
    THEN <<>>
    ELSE <<Head(steps)>> \o StepsBefore(Tail(steps), s)

\* The assertion compiled out.
DimsNonZero_skipped(dims) == TRUE

\* assert(w != 0 && h != 0)
DimsNonZero(dims) == dims.w # U32Zero /\ dims.h # U32Zero

(***************************************************************************)
(* The uniform data the passes write.                                      *)
(***************************************************************************)
\* The time warp matrices all computed towards the new pose of the first view.
projection_timewarp_ubo_first_new_pose(old, views, src_norm_rects, src_poses, src_fovs, new_poses, vc) ==
    [views |-> [i \in ViewSlots |-> IF i <= vc THEN views[i] ELSE old.views[i]],
     pre_transforms |-> [i \in ViewSlots |->
                            IF i <= vc THEN uv_to_tanangle[i]
                            ELSE old.pre_transforms[i]],
     transforms |-> [i \in ViewSlots |->
                        IF i <= vc
                        THEN render_calc_time_warp_matrix(src_poses[i], src_fovs[i],
                                                          new_poses[1])
                        ELSE old.transforms[i]],
     post_transforms |-> [i \in ViewSlots |->
                             IF i <= vc THEN src_norm_rects[i]
                             ELSE old.post_transforms[i]]]

projection_timewarp_ubo(old, views, src_norm_rects, src_poses, src_fovs, new_poses, vc) ==
    [views |-> [i \in ViewSlots |-> IF i <= vc THEN views[i] ELSE old.views[i]],
     pre_transforms |-> [i \in ViewSlots |->
                            IF i <= vc THEN uv_to_tanangle[i]
                            ELSE old.pre_transforms[i]],
     transforms |-> [i \in ViewSlots |->
                        IF i <= vc
                        THEN render_calc_time_warp_matrix(src_poses[i], src_fovs[i],
                                                          new_poses[i])
                        ELSE old.transforms[i]],
     post_transforms |-> [i \in ViewSlots |->
                             IF i <= vc THEN src_norm_rects[i]
                             ELSE old.post_transforms[i]]]

\* projection writing the whole record: the static pre-transform and the identity too.
projection_ubo_whole_record(old, views, src_norm_rects, vc) ==
    [views |-> [i \in ViewSlots |-> IF i <= vc THEN views[i] ELSE old.views[i]],
     pre_transforms |-> [i \in ViewSlots |->
                            IF i <= vc THEN uv_to_tanangle[i]
                            ELSE old.pre_transforms[i]],
     transforms |-> [i \in ViewSlots |->
                        IF i <= vc THEN IdentityMatrix ELSE old.transforms[i]],
     post_transforms |-> [i \in ViewSlots |->
                             IF i <= vc THEN src_norm_rects[i]
                             ELSE old.post_transforms[i]]]

projection_ubo(old, views, src_norm_rects, vc) ==
    [old EXCEPT
        !.views = [i \in ViewSlots |-> IF i <= vc THEN views[i] ELSE old.views[i]],
        !.post_transforms = [i \in ViewSlots |->
                                IF i <= vc THEN src_norm_rects[i]
                                ELSE old.post_transforms[i]]]

\* clear writing the viewport of every view slot, the inactive ones included.
clear_ubo_all_slots(old, views, vc) ==
    [old EXCEPT !.views = [i \in ViewSlots |-> views[i]]]

clear_ubo(old, views, vc) ==
    [old EXCEPT
        !.views = [i \in ViewSlots |-> IF i <= vc THEN views[i] ELSE old.views[i]]]

(***************************************************************************)
(* Pass entry points.                                                      *)
(***************************************************************************)
\* steps: the steps of the function the call went through, in the order of the code.
Pass(op, ret, args, steps) ==
    /\ status = "running"
    /\ npasses < MaxPasses
    /\ npasses' = npasses + 1
    /\ call' = [op |-> op, ret |-> ret, args |-> args, steps |-> steps]
    /\ at_init' = [at_init EXCEPT !.passes = TRUE]
    /\ UNCHANGED <<view_count, geom_vars, env_vars, ctx_vars, pool>>

\* Without the assertion the pass goes on to read through the null render->r.
PassReadsThroughNull(op, args) ==
    /\ Pass(op, "crash", args, <<>>)
    /\ status' = "crashed"
    /\ UNCHANGED <<sets, ubo_distortion, ubo_clear, cmd>>

\* assert(render->r != NULL) fails: nothing was touched.
PassAssertsAttached(op, args) ==
    /\ Pass(op, "abort", args, <<>>)
    /\ status' = "aborted"
    /\ UNCHANGED <<sets, ubo_distortion, ubo_clear, cmd>>

\* The rest of a pass once its uniform data is written: cs are the commands in
\* the order of the code, new_set the descriptor set contents its update writes.
\* vkUpdateDescriptorSets on a handle that is not an allocated set is an
\* invalid access; a failed assert(w != 0 && h != 0) stops before the dispatch.
PassRecords(op, args, set, new_set, cs, dims, stops_at_update, steps) ==
    IF set \notin pool
    THEN /\ Pass(op, "crash", args, StepsBefore(steps, "update_descriptor_set"))
         /\ status' = "crashed"
         /\ cmd' \in Recorded(cmd, Before(cs, stops_at_update))
         /\ UNCHANGED sets
    ELSE /\ sets' = [sets EXCEPT ![set] = new_set]
         /\ IF DimsNonZero(dims)
            THEN /\ Pass(op, "void", args, steps)
                 /\ cmd' \in Recorded(cmd, cs)
                 /\ UNCHANGED status
            ELSE /\ Pass(op, "abort", args, StepsBefore(steps, "dispatch"))
                 /\ status' = "aborted"
                 /\ cmd' \in Recorded(cmd, Before(cs, {"Dispatch"}))

\* render_compute_layers (render_compute.c:391-451); the descriptor set is the
\* caller's, one of render->layer_descriptor_sets[].
render_compute_layers(slot, ubo, src_samplers, src_image_views, num_srcs, target_image_view, view, do_timewarp) ==
    LET args == [slot |-> slot, ubo |-> ubo, src_samplers |-> src_samplers,
                 src_image_views |-> src_image_views, num_srcs |-> num_srcs,
                 target_image_view |-> target_image_view, view |-> view,
                 do_timewarp |-> do_timewarp]
        descriptor_set == layer_descriptor_sets[slot]
    IN  IF r = "NULL"
        THEN PassAssertsAttached("layers", args)
        ELSE LET dims == calc_dispatch_dims_1_view(view)
                 pipeline == IF do_timewarp THEN "layer.timewarp_pipeline"
                             ELSE "layer.non_timewarp_pipeline"
                 new_set == IF descriptor_set \in pool
                            THEN update_compute_layer_descriptor_set(
                                     sets[descriptor_set], src_samplers,
                                     src_image_views, num_srcs, target_image_view,
                                     ubo, "WHOLE_SIZE")
                            ELSE FreshSet
             IN  /\ PassRecords("layers", args, descriptor_set, new_set,
                                layers_cmds(pipeline, descriptor_set, dims), dims,
                                {"BindPipeline"}, layers_steps)
                 /\ UNCHANGED <<ubo_distortion, ubo_clear>>

\* render_compute_projection_timewarp (render_compute.c:453-588).
render_compute_projection_timewarp(src_samplers, src_image_views, src_norm_rects, src_poses, src_fovs, new_poses, target_image, target_image_view, views) ==
    LET args == [src_samplers |-> src_samplers, src_image_views |-> src_image_views,
                 src_norm_rects |-> src_norm_rects, src_poses |-> src_poses,
                 src_fovs |-> src_fovs, new_poses |-> new_poses,
                 target_image |-> target_image,
                 target_image_view |-> target_image_view, views |-> views]
    IN  IF r = "NULL"
        THEN PassAssertsAttached("projection_timewarp", args)
        ELSE LET dims == calc_dispatch_dims_views(views, view_count)
                 set == shared_descriptor_set
                 new_set == IF set \in pool
                            THEN update_compute_shared_descriptor_set(
                                     sets[set], src_samplers, src_image_views,
                                     DistortionSamplers("clamp_to_edge", view_count),
                                     distortion_image_views, target_image_view,
                                     "distortion.ubo.buffer", "WHOLE_SIZE", view_count)
                            ELSE FreshSet
             IN  /\ ubo_distortion' = projection_timewarp_ubo(
                                          ubo_distortion, views, src_norm_rects,
                                          src_poses, src_fovs, new_poses, view_count)
                 /\ PassRecords("projection_timewarp", args, set, new_set,
                                projection_timewarp_cmds(target_image, set, dims),
                                dims, {"BindPipeline"}, projection_timewarp_steps)
                 /\ UNCHANGED ubo_clear

\* render_compute_projection (render_compute.c:590-712).
render_compute_projection(src_samplers, src_image_views, src_norm_rects, target_image, target_image_view, views) ==
    LET args == [src_samplers |-> src_samplers, src_image_views |-> src_image_views,
                 src_norm_rects |-> src_norm_rects, target_image |-> target_image,
                 target_image_view |-> target_image_view, views |-> views]
    IN  IF r = "NULL"
        THEN PassAssertsAttached("projection", args)
        ELSE LET dims == calc_dispatch_dims_views(views, view_count)
                 set == shared_descriptor_set
                 new_set == IF set \in pool
                            THEN update_compute_shared_descriptor_set(
                                     sets[set], src_samplers, src_image_views,
                                     DistortionSamplers("clamp_to_edge", view_count),
                                     distortion_image_views, target_image_view,
                                     "distortion.ubo.buffer", "WHOLE_SIZE", view_count)
                            ELSE FreshSet
             IN  /\ ubo_distortion' = projection_ubo(ubo_distortion, views,
                                                     src_norm_rects, view_count)
                 /\ PassRecords("projection", args, set, new_set,
                                projection_cmds(target_image, set, dims), dims,
                                {"BindPipeline"}, projection_steps)
                 /\ UNCHANGED ubo_clear

\* render_compute_clear (render_compute.c:714-841).
render_compute_clear(target_image, target_image_view, views) ==
    LET args == [target_image |-> target_image,
                 target_image_view |-> target_image_view, views |-> views]
    IN  IF r = "NULL"
        THEN PassAssertsAttached("clear", args)
        ELSE LET dims == calc_dispatch_dims_views(views, view_count)
                 set == shared_descriptor_set
                 \* the local src_samplers[] and src_image_views[] arrays
                 src_samplers == [i \in ViewSlots |->
                                     IF i <= view_count THEN "mock" ELSE "indeterminate"]
                 src_image_views == [i \in ViewSlots |->
                                        IF i <= view_count
                                        THEN [mock_color_image_view |-> TRUE]
                                        ELSE [indeterminate |-> TRUE]]
                 new_set == IF set \in pool
                            THEN update_compute_shared_descriptor_set(
                                     sets[set], src_samplers, src_image_views,
                                     DistortionSamplers("mock", view_count),
                                     distortion_image_views, target_image_view,
                                     "clear.ubo.buffer", "WHOLE_SIZE", view_count)
                            ELSE FreshSet
             IN  /\ ubo_clear' = clear_ubo(ubo_clear, views, view_count)
                 /\ PassRecords("clear", args, set, new_set,
                                clear_cmds(target_image, set, dims), dims,
                                {"BindPipeline"}, clear_steps)
                 /\ UNCHANGED ubo_distortion

(***************************************************************************)
(* The inputs the calls are made with.                                     *)
(***************************************************************************)
VFull == Viewport(U32Small(1920), U32Small(1080))
VSmall == Viewport(U32Small(9), U32Small(8))
VZero == Viewport(U32Zero, U32Zero)

ViewsFull == [i \in ViewSlots |-> VFull]
ViewsMixed == [i \in ViewSlots |-> IF i = 1 THEN VZero ELSE VSmall]

\* Per-view sources of a projection: samplers, image views, normalized rects,
\* and for the timewarp pass the poses and fovs.
SourceA ==
    [samplers |-> [i \in ViewSlots |-> "clamp_to_edge"],
     image_views |-> [i \in ViewSlots |-> [swapchain |-> "a", view |-> i]],
     norm_rects |-> [i \in ViewSlots |-> [rect |-> "full"]],
     poses |-> [i \in ViewSlots |-> i % PoseSteps],
     fovs |-> [i \in ViewSlots |-> [fov |-> i]],
     new_poses |-> [i \in ViewSlots |-> i % PoseSteps]]

SourceB ==
    [samplers |-> [i \in ViewSlots |-> "repeat"],
     image_views |-> [i \in ViewSlots |-> [swapchain |-> "b", view |-> i]],
     norm_rects |-> [i \in ViewSlots |-> [rect |-> "half"]],
     poses |-> [i \in ViewSlots |-> i % PoseSteps],
     fovs |-> [i \in ViewSlots |-> [fov |-> i]],
     new_poses |-> [i \in ViewSlots |-> (i + 1) % PoseSteps]]

Target1 == [image |-> "target_image_1", view |-> "target_view_1"]
Target2 == [image |-> "target_image_2", view |-> "target_view_2"]

\* The projection and projection_timewarp calls made: two sources, two targets,
\* equal views, and an empty first view beside a non-empty second one (all the
\* active views are empty when view_count is 1).
ProjectionCalls ==
    { [s |-> SourceA, t |-> Target1, views |-> ViewsFull],
      [s |-> SourceB, t |-> Target2, views |-> ViewsMixed] }

\* The clear calls made.
ClearCalls ==
    { [t |-> Target1, views |-> ViewsFull],
      [t |-> Target2, views |-> ViewsMixed] }

\* The layers calls made: the first and the last slot, one source and a full
\* array of them, both pipelines, an empty viewport.
LayerCalls ==
    { [slot |-> 1, num_srcs |-> 1, view |-> VSmall, do_timewarp |-> FALSE],
      [slot |-> 1, num_srcs |-> RENDER_MAX_IMAGES_SIZE, view |-> VFull,
       do_timewarp |-> TRUE],
      [slot |-> RENDER_MAX_LAYER_RUNS_COUNT, num_srcs |-> RENDER_MAX_IMAGES_SIZE,
       view |-> VZero, do_timewarp |-> TRUE] }

LayerSamplers == [i \in 1..RENDER_MAX_IMAGES_SIZE |-> "clamp_to_edge"]
LayerImageViews == [i \in 1..RENDER_MAX_IMAGES_SIZE |-> [layer_image |-> i]]

(***************************************************************************)
(* The specification of the context's life.                                *)
(***************************************************************************)
\* The queue with no frame in flight.
GpuIdle == [in_flight |-> FALSE, cmds |-> <<>>]

GeomIdle ==
    /\ g_views = [i \in ViewSlots |-> VZero]
    /\ g_count = 0
    /\ g_out = [fn |-> "none", dims |-> [w |-> U32Zero, h |-> U32Zero]]

Init ==
    /\ r = "NULL"
    /\ layer_descriptor_sets = [i \in 1..RENDER_MAX_LAYER_RUNS_COUNT |-> VK_NULL_HANDLE]
    /\ shared_descriptor_set = VK_NULL_HANDLE
    /\ view_count \in 1..XRT_MAX_VIEWS
    /\ pool = {}
    /\ sets = [h \in Handles |-> FreshSet]
    /\ ubo_distortion = FreshUbo
    /\ ubo_clear = FreshUbo
    /\ cmd = FreshCmd
    /\ status = "running"
    /\ call = [op |-> "none", ret |-> "void", args |-> [none |-> TRUE]]
    /\ npasses = 0
    /\ at_init = [pool_count |-> 0, passes |-> FALSE, ret |-> FALSE, live |-> FALSE]
    /\ GeomIdle
    /\ gpu = GpuIdle

Next ==
    \/ \E fail_at \in 0..(RENDER_MAX_LAYER_RUNS_COUNT + 1) : render_compute_init(fail_at)
    \/ \E reset_ok \in BOOLEAN, begin_ok \in BOOLEAN : render_compute_begin(reset_ok, begin_ok)
    \/ \E end_ok \in BOOLEAN : render_compute_end(end_ok)
    \/ render_compute_fini
    \/ \E a \in LayerCalls :
          render_compute_layers(a.slot, "layer_ubo", LayerSamplers, LayerImageViews,
                                a.num_srcs, "layer_target_view", a.view, a.do_timewarp)
    \/ \E a \in ProjectionCalls :
          render_compute_projection_timewarp(a.s.samplers, a.s.image_views,
                                             a.s.norm_rects, a.s.poses, a.s.fovs,
                                             a.s.new_poses, a.t.image, a.t.view,
                                             a.views)
    \/ \E a \in ProjectionCalls :
          render_compute_projection(a.s.samplers, a.s.image_views, a.s.norm_rects,
                                    a.t.image, a.t.view, a.views)
    \/ \E a \in ClearCalls :
          render_compute_clear(a.t.image, a.t.view, a.views)

Spec == Init /\ [][Next]_vars

(***************************************************************************)
(* The frame pipeline around the context: the compositor submits the frame *)
(* that end has closed, the GPU executes it asynchronously, and the host   *)
(* goes on to the next frame.  None of the functions of render_compute.c   *)
(* waits for the GPU.                                                      *)
(***************************************************************************)
\* The compositor submits the closed frame; the command buffer is pending
\* until the GPU is done with it.
Submit ==
    /\ status = "running"
    /\ r # "NULL"
    /\ cmd.state = "executable"
    /\ ~gpu.in_flight
    /\ gpu' = [in_flight |-> TRUE, cmds |-> cmd.cmds]
    /\ cmd' = [cmd EXCEPT !.state = "pending"]
    /\ UNCHANGED <<ctx_vars, view_count, pool, sets, ubo_distortion, ubo_clear,
                   status, call, npasses, at_init, geom_vars>>

\* The GPU completes the frame in flight; a command buffer begun with
\* VK_COMMAND_BUFFER_USAGE_ONE_TIME_SUBMIT_BIT is invalid after its execution.
GpuComplete ==
    /\ gpu.in_flight
    /\ gpu' = GpuIdle
    /\ cmd' = IF cmd.state = "pending" THEN [cmd EXCEPT !.state = "invalid"] ELSE cmd
    /\ UNCHANGED <<ctx_vars, view_count, pool, sets, ubo_distortion, ubo_clear,
                   status, call, npasses, at_init, geom_vars>>

\* The host records frames of shared passes while the GPU executes.
NextAsync ==
    \/ render_compute_init(0)
    \/ \E reset_ok \in BOOLEAN, begin_ok \in BOOLEAN : render_compute_begin(reset_ok, begin_ok)
    \/ \E end_ok \in BOOLEAN : render_compute_end(end_ok)
    \/ \E a \in ProjectionCalls :
          render_compute_projection(a.s.samplers, a.s.image_views, a.s.norm_rects,
                                    a.t.image, a.t.view, a.views)
    \/ \E a \in ClearCalls :
          render_compute_clear(a.t.image, a.t.view, a.views)
    \/ Submit
    \/ GpuComplete

SpecAsync == Init /\ [][NextAsync]_vars

(***************************************************************************)
(* The dispatch geometry calculation on its own: the inputs are drawn from *)
(* both ends of uint32_t and the two functions are applied to them.        *)
(***************************************************************************)
U32Max == U32(LimbBase - 1, LimbBase - 1)

\* 2^32 - 1 - n for a small n.
U32FromTop(n) == U32(LimbBase - 1, LimbBase - 1 - n)

GeomExtents ==
    {U32Small(n) : n \in 0..MaxSmallExtent}
        \cup {U32Small(1080), U32Small(1920)}
        \cup {U32FromTop(n) : n \in 0..MaxTopOffset}

GeomExtentsFew == {U32Zero, U32Small(TileSize), U32Small(1080), U32Max}

GeomFirstViews == {Viewport(w, h) : w \in GeomExtents, h \in GeomExtentsFew}

GeomOtherViews ==
    {Viewport(w, h) : w \in {U32Zero, U32Small(TileSize + 1), U32FromTop(TileSize)},
                      h \in {U32Zero, U32Small(TileSize + 1)}}

InitGeom ==
    /\ r = "NULL"
    /\ layer_descriptor_sets = [i \in 1..RENDER_MAX_LAYER_RUNS_COUNT |-> VK_NULL_HANDLE]
    /\ shared_descriptor_set = VK_NULL_HANDLE
    /\ view_count = XRT_MAX_VIEWS
    /\ pool = {}
    /\ sets = [h \in Handles |-> FreshSet]
    /\ ubo_distortion = FreshUbo
    /\ ubo_clear = FreshUbo
    /\ cmd = FreshCmd
    /\ status = "running"
    /\ call = [op |-> "none", ret |-> "void", args |-> [none |-> TRUE]]
    /\ npasses = 0
    /\ at_init = [pool_count |-> 0, passes |-> FALSE, ret |-> FALSE, live |-> FALSE]
    /\ g_views \in {[i \in ViewSlots |-> IF i = 1 THEN a ELSE b] :
                       a \in GeomFirstViews, b \in GeomOtherViews}
    /\ g_count \in 0..XRT_MAX_VIEWS
    /\ g_out = [fn |-> "none", dims |-> [w |-> U32Zero, h |-> U32Zero]]
    /\ gpu = GpuIdle

GeomUnchanged ==
    UNCHANGED <<r, layer_descriptor_sets, shared_descriptor_set, view_count, pool,
                sets, ubo_distortion, ubo_clear, cmd, status, call, npasses,
                at_init, g_views, g_count, gpu>>

\* calc_dispatch_dims_1_view(views[0], &w, &h)
Calc1View ==
    /\ g_out' = [fn |-> "1_view", dims |-> calc_dispatch_dims_1_view(g_views[1])]
    /\ GeomUnchanged

\* calc_dispatch_dims_views(views, view_count, &w, &h)
CalcViews ==
    /\ g_out' = [fn |-> "views", dims |-> calc_dispatch_dims_views(g_views, g_count)]
    /\ GeomUnchanged

NextGeom == Calc1View \/ CalcViews

SpecGeom == InitGeom /\ [][NextGeom]_vars

(***************************************************************************)
(* Properties of the dispatch geometry calculation.                        *)
(***************************************************************************)
\* The extent a result was computed from: the view's own for the single-view
\* function, the greatest among the active views (0 when there are none) for
\* the multi-view one.
ActiveExtents(dim) == {g_views[i][dim] : i \in 1..g_count} \cup {U32Zero}

GreatestExtent(dim) ==
    CHOOSE e \in ActiveExtents(dim) : \A f \in ActiveExtents(dim) : ~U32Gt(f, e)

InputExtent(dim) ==
    IF g_out.fn = "1_view" THEN g_views[1][dim] ELSE GreatestExtent(dim)

\* g * 8 >= w and (g - 1) * 8 < w, in exact arithmetic.
CoversExactly(g, w) ==
    /\ WideGe(WideMulSmall(g, TileSize), w)
    /\ WideLt(WideMulSmall(g, TileSize), WideAddSmall(w, TileSize))

\* The extents whose rounding up does not wrap: 0 .. 2^32 - 8.
RoundsWithoutWrap(e) == ~U32Gt(e, U32FromTop(TileSize - 1))

\* C5: for every positive 32-bit extent w the group count g of the single-view
\* calculation satisfies g*8 >= w and (g-1)*8 < w (1920x1080 gives 240x135,
\* 1x1 gives 1x1).
C5_GroupCountCoversExtent ==
    g_out.fn = "1_view" =>
        /\ \A dim \in {"w", "h"} :
               g_views[1][dim] # U32Zero =>
                   CoversExactly(g_out.dims[dim], g_views[1][dim])
        /\ (g_views[1].w = U32Small(1920) /\ g_views[1].h = U32Small(1080)) =>
               g_out.dims = [w |-> U32Small(240), h |-> U32Small(135)]

\* The same statement for the extents 1 .. 2^32 - 8, where it does hold.
GroupCountCoversExtentBelowWrap ==
    g_out.fn = "1_view" =>
        \A dim \in {"w", "h"} :
            (g_views[1][dim] # U32Zero /\ RoundsWithoutWrap(g_views[1][dim])) =>
                CoversExactly(g_out.dims[dim], g_views[1][dim])

\* Every way of ordering the active viewports: the permutations of 1..g_count.
Orderings(n) == {p \in [1..n -> 1..n] : \A i, j \in 1..n : p[i] = p[j] => i = j}

Permuted(views, p, n) == [i \in ViewSlots |-> IF i <= n THEN views[p[i]] ELSE views[i]]

\* C6: calc_dispatch_dims_views returns what calc_dispatch_dims_1_view returns
\* for the viewport of the component-wise maxima of the active viewports, and
\* the same for every permutation of them.
C6_ViewsEqualsOneViewOfMaxima ==
    g_out.fn = "views" =>
        /\ g_out.dims = calc_dispatch_dims_1_view(
                            Viewport(GreatestExtent("w"), GreatestExtent("h")))
        /\ \A p \in Orderings(g_count) :
               calc_dispatch_dims_views(Permuted(g_views, p, g_count), g_count)
                   = g_out.dims

\* A multi-view result whose width comes from one view and height from another.
C6_Witness ==
    /\ g_out.fn = "views"
    /\ g_count = XRT_MAX_VIEWS
    /\ U32Gt(g_views[1].w, g_views[2].w)
    /\ U32Gt(g_views[2].h, g_views[1].h)
    /\ g_out.dims.w # U32Zero
    /\ g_out.dims.h # U32Zero

\* C7 as stated: the calculation never returns zero in either dimension.
C7_NeverZero ==
    g_out.fn # "none" => (g_out.dims.w # U32Zero /\ g_out.dims.h # U32Zero)

\* C7 amended: a dimension of the result is zero exactly when the extent it is
\* computed from is 0 or above 2^32 - 8; for every extent 1 .. 2^32 - 8 it is
\* not zero.
C7_ZeroOnlyForEmptyOrWrappedExtent ==
    g_out.fn # "none" =>
        \A dim \in {"w", "h"} :
            (g_out.dims[dim] = U32Zero)
                <=> (InputExtent(dim) = U32Zero \/ ~RoundsWithoutWrap(InputExtent(dim)))

\* A multi-view result that is zero in one dimension only.
C7_Witness ==
    /\ g_out.fn = "views"
    /\ g_count = XRT_MAX_VIEWS
    /\ GreatestExtent("h") = U32Zero
    /\ GreatestExtent("w") = U32Small(1)
    /\ g_out.dims = [w |-> U32Small(1), h |-> U32Zero]

(***************************************************************************)
(* Properties of the recorded command sequence.                            *)
(***************************************************************************)
PassOps == {"layers", "projection", "projection_timewarp", "clear"}

SharedPipelines ==
    {"distortion.pipeline", "distortion.timewarp_pipeline", "clear.pipeline"}

IsPreBarrier(c) ==
    /\ c.op = "PipelineBarrier"
    /\ c.oldLayout = "UNDEFINED"
    /\ c.newLayout = "GENERAL"
    /\ c.dstAccess = "SHADER_WRITE"

IsPostBarrier(c) ==
    /\ c.op = "PipelineBarrier"
    /\ c.oldLayout = "GENERAL"
    /\ c.newLayout = "PRESENT_SRC_KHR"
    /\ c.srcAccess = "SHADER_WRITE"
    /\ c.dstAccess = "MEMORY_READ"

\* The positions of cs holding a command whose op is op.
Positions(cs, op) == {i \in DOMAIN cs : cs[i].op = op}

\* The last position before i, and the first after i, holding such a command
\* (0 when there is none).
LastBefore(cs, i, op) ==
    LET ps == {j \in Positions(cs, op) : j < i}
    IN  IF ps = {} THEN 0 ELSE CHOOSE j \in ps : \A k \in ps : k <= j

FirstAfter(cs, i, op) ==
    LET ps == {j \in Positions(cs, op) : j > i}
    IN  IF ps = {} THEN 0 ELSE CHOOSE j \in ps : \A k \in ps : j <= k

\* The pipeline bound when the command at position i runs.
PipelineAt(cs, i) ==
    LET j == LastBefore(cs, i, "BindPipeline")
    IN  IF j = 0 THEN "none" ELSE cs[j].pipeline

\* The dispatches of the projection, projection_timewarp and clear passes.
SharedDispatches(cs) ==
    {i \in Positions(cs, "Dispatch") : PipelineAt(cs, i) \in SharedPipelines}

\* C1: in the recorded sequence every dispatch of a projection,
\* projection_timewarp or clear pass has, with no other dispatch or barrier in
\* between, the pre-barrier (UNDEFINED -> GENERAL, shader write) of its target
\* image before it and the post-barrier (GENERAL -> PRESENT_SRC, shader write
\* before memory read) of the same image after it.
C1_BarriersAroundDispatch ==
    \A i \in SharedDispatches(cmd.cmds) :
        LET cs == cmd.cmds
            j == LastBefore(cs, i, "PipelineBarrier")
            k == FirstAfter(cs, i, "PipelineBarrier")
        IN  /\ j # 0
            /\ k # 0
            /\ IsPreBarrier(cs[j])
            /\ IsPostBarrier(cs[k])
            /\ cs[j].image = cs[k].image
            /\ Positions(cs, "Dispatch") \cap (j..k) = {i}

\* A frame being recorded that holds the dispatches of two such passes on
\* different target images.
C1_Witness ==
    /\ cmd.state = "recording"
    /\ ~cmd.stray
    /\ Cardinality(SharedDispatches(cmd.cmds)) = 2
    /\ \E i, j \in Positions(cmd.cmds, "PipelineBarrier") :
           cmd.cmds[i].image # cmd.cmds[j].image

(***************************************************************************)
(* Properties of the lifecycle.                                            *)
(***************************************************************************)
\* Every allocation of init succeeded and fini has not been called since.
Initialized ==
    /\ r # "NULL"
    /\ shared_descriptor_set \in pool
    /\ \A i \in 1..RENDER_MAX_LAYER_RUNS_COUNT : layer_descriptor_sets[i] \in pool

\* C2 as stated: a pass called on an initialized context while no frame is
\* open trips an assertion, records no command and changes no descriptor or
\* uniform state.
C2_PassOutsideFrameDetected ==
    [][(Initialized /\ cmd.state # "recording" /\ call'.op \in PassOps)
          => /\ status' = "aborted"
             /\ cmd' = cmd
             /\ sets' = sets
             /\ ubo_distortion' = ubo_distortion
             /\ ubo_clear' = ubo_clear]_vars

\* C3 as stated: when init returns false the context is uninitialized again
\* and no descriptor set allocated by the call remains allocated.
C3_InitAllOrNothing ==
    (call.op = "init" /\ call.ret = "false") =>
        /\ r = "NULL"
        /\ Cardinality(pool) = at_init.pool_count
        /\ \A i \in 1..RENDER_MAX_LAYER_RUNS_COUNT :
               layer_descriptor_sets[i] = VK_NULL_HANDLE

\* The shared descriptor set as a projection call with these arguments leaves
\* it, given only the arguments and the static resources.
SharedSetOfProjection(args) ==
    [src |-> [i \in SrcSlots |->
                 IF i <= view_count
                 THEN ImageInfo(args.src_samplers[i], args.src_image_views[i],
                                "SHADER_READ_ONLY_OPTIMAL")
                 ELSE NoImageInfo],
     distortion |-> [i \in DistortionSlots |->
                        IF i <= 3 * view_count
                        THEN ImageInfo("clamp_to_edge", distortion_image_views[i],
                                       "SHADER_READ_ONLY_OPTIMAL")
                        ELSE NoImageInfo],
     target |-> ImageInfo("none", args.target_image_view, "GENERAL"),
     ubo |-> BufferInfo("distortion.ubo.buffer", "WHOLE_SIZE")]

\* C4: after a projection pass the shared descriptor set holds what follows
\* from that call's arguments and the static resources alone, whatever passes
\* ran before; no mock sampler of a preceding clear is left bound.
C4_ProjectionRebindsEverything ==
    (call.op = "projection" /\ call.ret \in {"void", "abort"} /\ r # "NULL") =>
        /\ sets[shared_descriptor_set] = SharedSetOfProjection(call.args)
        /\ \A i \in DistortionSlots :
               sets[shared_descriptor_set].distortion[i].sampler # "mock"
        /\ \A i \in SrcSlots : sets[shared_descriptor_set].src[i].sampler # "mock"

\* A projection recorded right after a clear, in the same frame, on another target.
C4_Witness ==
    /\ call.op = "projection"
    /\ call.ret = "void"
    /\ cmd.state = "recording"
    /\ ~cmd.stray
    /\ \E i \in Positions(cmd.cmds, "Dispatch") :
           /\ PipelineAt(cmd.cmds, i) = "clear.pipeline"
           /\ cmd.cmds[FirstAfter(cmd.cmds, i, "PipelineBarrier")].image
                  # call.args.target_image
    /\ ubo_clear.views[1] # Unwritten

\* C8: after a successful init followed by fini with no pass in between, the
\* program is still running and the pool holds as many descriptor sets as
\* when init was entered.
C8_InitFiniLeaksNothing ==
    (call.op = "fini" /\ call.args.attached_before /\ at_init.ret
        /\ ~at_init.passes) =>
        /\ status = "running"
        /\ call.ret = "void"
        /\ Cardinality(pool) = at_init.pool_count
        /\ r = "NULL"

\* fini has returned after an init that allocated every descriptor set, with
\* no pass in between.
C8_Witness ==
    /\ call.op = "fini"
    /\ call.ret = "void"
    /\ at_init.ret
    /\ ~at_init.passes
    /\ ~at_init.live
    /\ pool = {}

\* C9: at most one recording scope is open at any time; a begin issued while
\* a frame is open does not leave a second or nested one.
C9_AtMostOneOpenFrame ==
    /\ cmd.open <= 1
    /\ cmd.open = 1 <=> cmd.state = "recording"

\* begin has succeeded although a frame was already open.
C9_Witness ==
    /\ call.op = "begin"
    /\ call.ret = "true"
    /\ call.args.open_before = 1
    /\ cmd.open = 1

\* C10: the back-reference is non-null from a successful init until fini;
\* fini or a pass called on a detached context, and init called on an attached
\* one, trip an assertion and touch nothing.
C10_AttachmentAsserted ==
    [][/\ at_init.live' => r' # "NULL"
       /\ ((r = "NULL" /\ call'.op \in PassOps \cup {"fini"})
              \/ (r # "NULL" /\ call'.op = "init"))
             => /\ status' = "aborted"
                /\ call'.ret = "abort"
                /\ UNCHANGED <<ctx_vars, pool, sets, ubo_distortion, ubo_clear, cmd>>]_vars

\* A pass called after init and fini has tripped the assertion.
C10_Witness ==
    /\ call.op \in PassOps
    /\ call.ret = "abort"
    /\ status = "aborted"
    /\ r = "NULL"
    /\ at_init.ret
    /\ ~at_init.live

\* C11: begin on an attached context resets the command pool, opens the
\* recording scope and records the query pool reset and the timestamp of
\* query 0, in that order; it returns false exactly when the reset or the
\* opening fails, and then has recorded nothing and opened no scope.
C11_BeginOrderAndFailure ==
    [][(call'.op = "begin" /\ r # "NULL") =>
          /\ call'.ret = "true" <=> call'.args.inputs.failed = "none"
          /\ call'.ret \in {"true", "false"}
          /\ call'.ret = "true" =>
                 cmd' = [state |-> "recording",
                         cmds |-> <<CmdResetQueryPool(0, 2),
                                    CmdWriteTimestamp("TOP_OF_PIPE", 0)>>,
                         open |-> 1, stray |-> FALSE]
          /\ call'.args.inputs.failed = "vkResetCommandPool" => cmd' = cmd
          /\ call'.args.inputs.failed = "vkBeginCommandBuffer" => cmd' = FreshCmd]_vars

\* begin has failed at the opening of the scope, after the reset discarded a
\* frame in which a pass was recorded.
C11_Witness ==
    /\ call.op = "begin"
    /\ call.ret = "false"
    /\ call.args.inputs.failed = "vkBeginCommandBuffer"
    /\ call.args.open_before = 1
    /\ npasses > 0
    /\ cmd = FreshCmd

\* C12: end called in an open frame records the timestamp of query 1 as the
\* last command of the frame and then closes the scope; it returns false
\* exactly when the closing fails, and after a successful end no frame is open.
C12_EndTimestampThenClose ==
    (call.op = "end" /\ call.args.attached_before /\ call.args.open_before = 1) =>
        /\ call.ret \in {"true", "false"}
        /\ call.ret = "true" <=> call.args.inputs.failed = "none"
        /\ cmd.cmds # <<>>
        /\ cmd.cmds[Len(cmd.cmds)] = CmdWriteTimestamp("BOTTOM_OF_PIPE", 1)
        /\ Cardinality(Positions(cmd.cmds, "WriteTimestamp")) = 2
        /\ ~cmd.stray
        /\ call.ret = "true" => (cmd.state = "executable" /\ cmd.open = 0)

\* end has succeeded on a frame that holds the dispatch of a pass.
C12_Witness ==
    /\ call.op = "end"
    /\ call.ret = "true"
    /\ call.args.open_before = 1
    /\ cmd.state = "executable"
    /\ Positions(cmd.cmds, "Dispatch") # {}

\* C13: fini on an attached context returns every descriptor set to the pool
\* by the reset of the pool, nulls the shared and every layer handle and
\* clears the back-reference: none of the former sets is allocated or holds
\* a binding afterwards, and an init that follows is not turned away.
C13_FiniReturnsEverything ==
    [][/\ (call'.op = "fini" /\ r # "NULL") =>
             /\ call'.ret = "void"
             /\ status' = "running"
             /\ r' = "NULL"
             /\ shared_descriptor_set' = VK_NULL_HANDLE
             /\ \A i \in 1..RENDER_MAX_LAYER_RUNS_COUNT :
                    layer_descriptor_sets'[i] = VK_NULL_HANDLE
             /\ pool' = {}
             /\ \A h \in pool : sets'[h] = FreshSet
             /\ UNCHANGED <<cmd, ubo_distortion, ubo_clear>>
       /\ (call.op = "fini" /\ call.ret = "void" /\ call'.op = "init") =>
             call'.ret \in {"true", "false"}]_vars

\* init has succeeded on a context that fini detached after a pass had
\* written the bindings of a descriptor set.
C13_Witness ==
    /\ call.op = "init"
    /\ call.ret = "true"
    /\ npasses > 0
    /\ ~at_init.passes
    /\ \A h \in Handles : sets[h] = FreshSet
    /\ Cardinality(pool) = RENDER_MAX_LAYER_RUNS_COUNT + 1

SharedOps == {"projection", "projection_timewarp", "clear"}

\* The call went as far as vkUpdateDescriptorSets on an allocated set.
ReachedUpdate(c) ==
    /\ c.ret \in {"void", "abort"}
    /\ "update_descriptor_set" \in {c.steps[k] : k \in DOMAIN c.steps}

UpdatesIn(c) == {k \in DOMAIN c.steps : c.steps[k] = "update_descriptor_set"}

IsWrittenImage(info) ==
    info # NoImageInfo /\ info.imageLayout = "SHADER_READ_ONLY_OPTIMAL"

\* C14: a descriptor update is one call that writes exactly the entries of its
\* shape: the layer shape the first num_srcs source entries, the target and
\* the uniform buffer of the caller's set; the shared shape the first
\* view_count source entries, the first 3 * view_count distortion entries,
\* the target and the uniform buffer of the shared set.  Every other entry
\* and every other set is left as it was.
C14_UpdateWritesExactlyItsShape ==
    [][/\ (call'.op = "layers" /\ ReachedUpdate(call')) =>
             LET a == call'.args
                 s == layer_descriptor_sets[a.slot]
             IN  /\ Cardinality(UpdatesIn(call')) = 1
                 /\ \A i \in SrcSlots :
                        sets'[s].src[i] =
                            IF i <= a.num_srcs
                            THEN ImageInfo(a.src_samplers[i], a.src_image_views[i],
                                           "SHADER_READ_ONLY_OPTIMAL")
                            ELSE sets[s].src[i]
                 /\ sets'[s].distortion = sets[s].distortion
                 /\ sets'[s].target = ImageInfo("none", a.target_image_view, "GENERAL")
                 /\ sets'[s].ubo = BufferInfo(a.ubo, "WHOLE_SIZE")
                 /\ \A h \in Handles \ {s} : sets'[h] = sets[h]
       /\ (call'.op \in SharedOps /\ ReachedUpdate(call')) =>
             LET a == call'.args
                 s == shared_descriptor_set
             IN  /\ Cardinality(UpdatesIn(call')) = 1
                 /\ \A i \in SrcSlots :
                        IF i <= view_count
                        THEN IsWrittenImage(sets'[s].src[i])
                        ELSE sets'[s].src[i] = sets[s].src[i]
                 /\ \A i \in DistortionSlots :
                        IF i <= 3 * view_count
                        THEN /\ IsWrittenImage(sets'[s].distortion[i])
                             /\ sets'[s].distortion[i].imageView =
                                    distortion_image_views[i]
                        ELSE sets'[s].distortion[i] = sets[s].distortion[i]
                 /\ sets'[s].target = ImageInfo("none", a.target_image_view, "GENERAL")
                 /\ sets'[s].ubo.buffer \in {"distortion.ubo.buffer", "clear.ubo.buffer"}
                 /\ \A h \in Handles \ {s} : sets'[h] = sets[h]]_vars

\* A layers call with one source has returned, on a set whose last source
\* entry still holds what an earlier call with a full array wrote.
C14_Witness ==
    /\ call.op = "layers"
    /\ call.ret = "void"
    /\ call.args.num_srcs = 1
    /\ RENDER_MAX_IMAGES_SIZE > 1
    /\ IsWrittenImage(
           sets[layer_descriptor_sets[call.args.slot]].src[RENDER_MAX_IMAGES_SIZE])

RecordingSteps ==
    {"pre_barrier", "bind_pipeline", "bind_descriptor_sets", "dispatch", "post_barrier"}

\* The last call was a pass that ran to its end inside an open frame.
PassRecordedInFrame ==
    /\ call.op \in PassOps
    /\ call.ret = "void"
    /\ cmd.state = "recording"

\* The commands the last call recorded: one for each of its recording steps,
\* at the end of the frame's sequence.
CallCmds ==
    LET n == Cardinality({k \in DOMAIN call.steps : call.steps[k] \in RecordingSteps})
    IN  SubSeq(cmd.cmds, Len(cmd.cmds) - n + 1, Len(cmd.cmds))

\* C15 as stated: every pass call, the layers pass included, records a
\* pre-barrier ahead of its dispatch and a post-barrier after it.
C15_EveryPassRecordsBarriers ==
    PassRecordedInFrame =>
        \E i, j, k \in DOMAIN CallCmds :
            /\ i < j /\ j < k
            /\ IsPreBarrier(CallCmds[i])
            /\ CallCmds[j].op = "Dispatch"
            /\ IsPostBarrier(CallCmds[k])

\* C15 amended: projection, projection_timewarp and clear record the
\* pre-barrier on their target image first and the post-barrier on it last,
\* with their one dispatch in between; the layers pass records its dispatch
\* and no barrier at all.
C15_SharedPassesRecordBarriersLayersNone ==
    PassRecordedInFrame =>
        LET cs == CallCmds
        IN  /\ Cardinality(Positions(cs, "Dispatch")) = 1
            /\ IF call.op \in SharedOps
               THEN /\ cs[1] = PreBarrier(call.args.target_image)
                    /\ cs[Len(cs)] = PostBarrier(call.args.target_image)
                    /\ Positions(cs, "PipelineBarrier") = {1, Len(cs)}
               ELSE Positions(cs, "PipelineBarrier") = {}

\* A layers pass has been recorded in a frame that also holds a shared pass
\* with its two barriers.
C15_Witness ==
    /\ PassRecordedInFrame
    /\ call.op = "layers"
    /\ Cardinality(Positions(cmd.cmds, "Dispatch")) = 2
    /\ Cardinality(Positions(cmd.cmds, "PipelineBarrier")) = 2

\* The call went as far as the write of the mapped uniform buffer.
WroteUbo(c) == "write_ubo" \in {c.steps[k] : k \in DOMAIN c.steps}

\* C16 as stated: after projection the record of every active view holds the
\* call's viewport, the static pre-transform, the identity transform and the
\* call's post-transform.
C16_ProjectionWritesWholeRecord ==
    (call.op = "projection" /\ WroteUbo(call)) =>
        \A i \in 1..view_count :
            /\ ubo_distortion.views[i] = call.args.views[i]
            /\ ubo_distortion.pre_transforms[i] = uv_to_tanangle[i]
            /\ ubo_distortion.transforms[i] = IdentityMatrix
            /\ ubo_distortion.post_transforms[i] = call.args.src_norm_rects[i]

\* C16 amended: projection writes the viewport and the post-transform of
\* every active view from its arguments and nothing else: the pre-transforms
\* and the transforms of the buffer stay as an earlier pass left them.
C16_ProjectionWritesViewsAndPostOnly ==
    [][(call'.op = "projection" /\ WroteUbo(call')) =>
          /\ \A i \in ViewSlots :
                 /\ ubo_distortion'.views[i] =
                        IF i <= view_count THEN call'.args.views[i]
                        ELSE ubo_distortion.views[i]
                 /\ ubo_distortion'.post_transforms[i] =
                        IF i <= view_count THEN call'.args.src_norm_rects[i]
                        ELSE ubo_distortion.post_transforms[i]
          /\ ubo_distortion'.pre_transforms = ubo_distortion.pre_transforms
          /\ ubo_distortion'.transforms = ubo_distortion.transforms
          /\ ubo_clear' = ubo_clear]_vars

\* projection has returned after a projection_timewarp towards another pose:
\* the record still holds that pass's time warp matrix.
C16_Witness ==
    /\ call.op = "projection"
    /\ call.ret = "void"
    /\ ubo_distortion.views[1] = call.args.views[1]
    /\ ubo_distortion.transforms[1] # Unwritten
    /\ ubo_distortion.transforms[1] # IdentityMatrix
    /\ ubo_distortion.transforms[1].relative # IdentityPose

C17_DispatchDepthAndCounts ==
    PassRecordedInFrame =>
        /\ Cardinality(Positions(CallCmds, "Dispatch")) = 1
        /\ \A i \in Positions(CallCmds, "Dispatch") :
               LET d == CallCmds[i]
                   dims == IF call.op = "layers"
                           THEN calc_dispatch_dims_1_view(call.args.view)
                           ELSE calc_dispatch_dims_views(call.args.views, view_count)
               IN  /\ d.z = (IF call.op = "layers" THEN 1 ELSE 2)
                   /\ d.x = dims.w
                   /\ d.y = dims.h
                   /\ d.x # U32Zero /\ d.y # U32Zero

\* A shared pass has been recorded after a layers pass, in one frame: the
\* frame holds a dispatch of depth 1 and one of depth 2, of different counts.
C17_Witness ==
    /\ PassRecordedInFrame
    /\ call.op \in SharedOps
    /\ \E i, j \in Positions(cmd.cmds, "Dispatch") :
           /\ cmd.cmds[i].z = 1
           /\ cmd.cmds[j].z = 2
           /\ cmd.cmds[i].x # cmd.cmds[j].x

\* The order C19 states for the shared passes: the descriptor bindings are
\* updated ahead of the pre-barrier.
ClaimedSharedSteps ==
    <<"write_ubo", "update_descriptor_set", "pre_barrier", "bind_pipeline",
      "bind_descriptor_sets", "calc_dispatch_dims", "dispatch", "post_barrier">>

\* C19 as stated: a shared pass call that returns has taken its steps in the
\* order write uniform data, update descriptor bindings, record pre-barrier,
\* bind pipeline, bind descriptor set, compute dispatch dimensions, record
\* dispatch, record post-barrier.
C19_UpdateBeforePreBarrier ==
    (call.op \in SharedOps /\ call.ret = "void") =>
        call.steps = ClaimedSharedSteps

\* C19, amended: a shared pass call takes its steps in the order write uniform
\* data, record pre-barrier, update descriptor bindings, bind pipeline, bind
\* descriptor set, compute dispatch dimensions, record dispatch, record
\* post-barrier.  The pre-barrier is recorded before the bindings are updated:
\* a call whose update fails on an invalid set has already written the
\* uniform data and recorded the pre-barrier, and nothing after it.
C19_PreBarrierBeforeUpdate ==
    /\ (call.op \in SharedOps /\ call.ret = "void") =>
           /\ call.steps = <<"write_ubo", "pre_barrier", "update_descriptor_set",
                             "bind_pipeline", "bind_descriptor_sets",
                             "calc_dispatch_dims", "dispatch", "post_barrier">>
           /\ cmd.state = "recording" =>
                  /\ Len(CallCmds) = 5
                  /\ <<CallCmds[1].op, CallCmds[2].op, CallCmds[3].op,
                        CallCmds[4].op, CallCmds[5].op>> =
                     <<"PipelineBarrier", "BindPipeline", "BindDescriptorSets",
                       "Dispatch", "PipelineBarrier">>
    /\ (call.op \in SharedOps /\ call.ret = "crash" /\ WroteUbo(call)) =>
           /\ call.steps = <<"write_ubo", "pre_barrier">>
           /\ cmd.state = "recording" =>
                  /\ cmd.cmds # <<>>
                  /\ cmd.cmds[Len(cmd.cmds)] = PreBarrier(call.args.target_image)

\* A shared pass call in an open frame stopped at its descriptor update: the
\* pre-barrier is the last command of the frame.
C19_Witness ==
    /\ call.op \in SharedOps
    /\ call.ret = "crash"
    /\ WroteUbo(call)
    /\ cmd.state = "recording"
    /\ cmd.cmds # <<>>
    /\ cmd.cmds[Len(cmd.cmds)].op = "PipelineBarrier"

\* C20: when end has closed a frame, every dispatch of a shared pass in it
\* reads, through the shared descriptor set it bound, what its own pass call
\* wrote: the target it writes is the image its own pre-barrier made
\* writable, the uniform buffer is the one of its own pipeline, and the
\* viewports in that buffer are the ones its counts were computed from.
C20_EachDispatchReadsItsOwnData ==
    (call.op = "end" /\ call.ret = "true" /\ call.args.attached_before
        /\ shared_descriptor_set \in pool) =>
        \A k \in Positions(cmd.cmds, "Dispatch") :
            (/\ k > 3
             /\ cmd.cmds[k - 1].op = "BindDescriptorSets"
             /\ cmd.cmds[k - 1].set = shared_descriptor_set
             /\ cmd.cmds[k - 2].op = "BindPipeline"
             /\ cmd.cmds[k - 3].op = "PipelineBarrier") =>
                LET bound == sets[shared_descriptor_set]
                    own_image == cmd.cmds[k - 3].image
                    own_pipeline == cmd.cmds[k - 2].pipeline
                    own_buffer == IF own_pipeline = "clear.pipeline"
                                  THEN "clear.ubo.buffer"
                                  ELSE "distortion.ubo.buffer"
                    data == IF own_pipeline = "clear.pipeline"
                            THEN ubo_clear ELSE ubo_distortion
                IN  /\ \E t \in {Target1, Target2} :
                           /\ t.view = bound.target.imageView
                           /\ t.image = own_image
                    /\ bound.ubo.buffer = own_buffer
                    /\ calc_dispatch_dims_views(data.views, view_count) =
                           [w |-> cmd.cmds[k].x, h |-> cmd.cmds[k].y]

\* The call went as far as the calculation of its group counts.
ReachedCalc(c) == "calc_dispatch_dims" \in {c.steps[k] : k \in DOMAIN c.steps}

\* The group counts of the viewports a pass call was made with.
CountsOf(c) ==
    IF c.op = "layers"
    THEN calc_dispatch_dims_1_view(c.args.view)
    ELSE calc_dispatch_dims_views(c.args.views, view_count)

\* An extent whose group count is not zero: not empty, and not so large that
\* the rounding wraps.
CountedExtent(e) == e # U32Zero /\ RoundsWithoutWrap(e)

\* C21: no dispatch with a zero X or Y count is recorded; a pass that reaches
\* the calculation of its counts fails the assertion exactly when a count is
\* zero, the layers pass on its own viewport and the shared passes on the
\* maxima over the active views, so an empty view beside a non-empty active
\* view is accepted and dispatched.
C21_NoZeroDispatch ==
    /\ \A k \in Positions(cmd.cmds, "Dispatch") :
           cmd.cmds[k].x # U32Zero /\ cmd.cmds[k].y # U32Zero
    /\ (call.op \in PassOps /\ ReachedCalc(call)) =>
           /\ call.ret \in {"void", "abort"}
           /\ call.ret = "abort" <=> ~(CountsOf(call).w # U32Zero /\ CountsOf(call).h # U32Zero)
           /\ call.ret = "abort" => status = "aborted"
           /\ call.op = "layers" =>
                  (call.ret = "void" <=> (/\ CountedExtent(call.args.view.w)
                                          /\ CountedExtent(call.args.view.h)))
           /\ call.op \in SharedOps =>
                  (call.ret = "void" <=>
                      /\ \E i \in 1..view_count : U32Gt(call.args.views[i].w, U32Zero)
                      /\ \E i \in 1..view_count : U32Gt(call.args.views[i].h, U32Zero)
                      /\ \A i \in 1..view_count :
                             /\ RoundsWithoutWrap(call.args.views[i].w)
                             /\ RoundsWithoutWrap(call.args.views[i].h))
           /\ (call.ret = "void" /\ cmd.state = "recording") =>
                  \E k \in Positions(CallCmds, "Dispatch") :
                      /\ CallCmds[k].x = CountsOf(call).w
                      /\ CallCmds[k].y = CountsOf(call).h
           /\ (call.ret = "abort" /\ cmd.state = "recording") =>
                  /\ cmd.cmds # <<>>
                  /\ cmd.cmds[Len(cmd.cmds)].op = "BindDescriptorSets"

\* A shared pass given an empty first view beside a non-empty second one has
\* recorded its dispatch in an open frame.
C21_Witness ==
    /\ PassRecordedInFrame
    /\ call.op \in SharedOps
    /\ view_count = 2
    /\ call.args.views[1] = VZero
    /\ call.args.views[2] # VZero
    /\ Positions(CallCmds, "Dispatch") # {}

\* The commands the passes record.
PassCmdOps == {"PipelineBarrier", "BindPipeline", "BindDescriptorSets", "Dispatch"}

\* The frame's sequence starts with the reset of both query slots and the
\* timestamp of slot 0, and up to position last holds commands of passes only.
FrameOpensWithTimestamp(last) ==
    /\ Len(cmd.cmds) >= 2
    /\ cmd.cmds[1] = CmdResetQueryPool(0, 2)
    /\ cmd.cmds[2] = CmdWriteTimestamp("TOP_OF_PIPE", 0)
    /\ \A k \in 3..last : cmd.cmds[k].op \in PassCmdOps

\* C22: in a frame of begin, pass calls and end, all succeeding, the timestamp
\* of slot 0 follows the query pool reset and precedes every command of every
\* pass; the timestamp of slot 1 follows every command of every pass and is
\* the last command before the scope is closed; each slot is written once.
C22_TimestampsBracketThePasses ==
    /\ cmd.state = "recording" =>
           /\ FrameOpensWithTimestamp(Len(cmd.cmds))
           /\ cmd.open = 1
    /\ (call.op = "end" /\ call.ret = "true" /\ call.args.attached_before
           /\ call.args.open_before = 1) =>
           LET n == Len(cmd.cmds)
           IN  /\ n >= 3
               /\ FrameOpensWithTimestamp(n - 1)
               /\ cmd.cmds[n] = CmdWriteTimestamp("BOTTOM_OF_PIPE", 1)
               /\ {k \in 1..n : cmd.cmds[k].op = "WriteTimestamp" /\ cmd.cmds[k].query = 0} = {2}
               /\ {k \in 1..n : cmd.cmds[k].op = "WriteTimestamp" /\ cmd.cmds[k].query = 1} = {n}
               /\ Positions(cmd.cmds, "ResetQueryPool") = {1}
               /\ cmd.state = "executable"
               /\ cmd.open = 0

\* end has closed a frame of two pass calls: two dispatches lie between the
\* two timestamps.
C22_Witness ==
    /\ call.op = "end"
    /\ call.ret = "true"
    /\ call.args.open_before = 1
    /\ Cardinality(Positions(cmd.cmds, "Dispatch")) = 2
    /\ Cardinality(Positions(cmd.cmds, "WriteTimestamp")) = 2

\* The records of uniform buffer u at the view slots past the active views.
PastActive(u) ==
    [i \in ViewSlots \ (1..view_count) |->
        <<u.views[i], u.pre_transforms[i], u.transforms[i], u.post_transforms[i]>>]

\* C23: a pass touches only its own resources.  The layers pass updates only
\* the set of the caller's slot and leaves the shared set and both uniform
\* buffers alone; the shared passes update only the shared set and leave the
\* layer sets alone; clear writes only the viewports of the clear uniform
\* buffer and leaves the distortion one alone; projection and
\* projection_timewarp leave the clear one alone; no pass writes a uniform
\* record past the active views, and no pass changes the context or the pool.
C23_PassesTouchOnlyTheirOwn ==
    [][call'.op \in PassOps =>
          /\ UNCHANGED <<ctx_vars, pool, view_count>>
          /\ PastActive(ubo_distortion') = PastActive(ubo_distortion)
          /\ PastActive(ubo_clear') = PastActive(ubo_clear)
          /\ call'.op = "layers" =>
                 /\ \A h \in Handles \ {layer_descriptor_sets[call'.args.slot]} :
                        sets'[h] = sets[h]
                 /\ shared_descriptor_set \in Handles =>
                        sets'[shared_descriptor_set] = sets[shared_descriptor_set]
                 /\ UNCHANGED <<ubo_distortion, ubo_clear>>
          /\ call'.op \in SharedOps =>
                 /\ \A h \in Handles \ {shared_descriptor_set} : sets'[h] = sets[h]
                 /\ \A k \in 1..RENDER_MAX_LAYER_RUNS_COUNT :
                        layer_descriptor_sets[k] \in Handles =>
                            sets'[layer_descriptor_sets[k]] = sets[layer_descriptor_sets[k]]
          /\ call'.op = "clear" =>
                 /\ ubo_clear'.pre_transforms = ubo_clear.pre_transforms
                 /\ ubo_clear'.transforms = ubo_clear.transforms
                 /\ ubo_clear'.post_transforms = ubo_clear.post_transforms
                 /\ UNCHANGED ubo_distortion
          /\ call'.op \in {"projection", "projection_timewarp"} =>
                 UNCHANGED ubo_clear]_vars

\* With one active view, clear has returned after a layers pass: the layer
\* set still holds the bindings of that pass, and of the clear uniform buffer
\* only the viewport of the active view is written.
C23_Witness ==
    /\ view_count = 1
    /\ call.op = "clear"
    /\ call.ret = "void"
    /\ \E k \in 1..RENDER_MAX_LAYER_RUNS_COUNT :
           /\ layer_descriptor_sets[k] \in pool
           /\ sets[layer_descriptor_sets[k]].target # NoImageInfo
    /\ sets[shared_descriptor_set].ubo.buffer = "clear.ubo.buffer"
    /\ ubo_clear.views[1] = call.args.views[1]
    /\ ubo_clear.views[XRT_MAX_VIEWS] = Unwritten
    /\ ubo_clear.post_transforms[1] = Unwritten
    /\ ubo_distortion = FreshUbo

\* The pipeline a pass call binds.
PipelineOf(c) ==
    IF c.op = "layers"
    THEN (IF c.args.do_timewarp THEN "layer.timewarp_pipeline"
          ELSE "layer.non_timewarp_pipeline")
    ELSE IF c.op = "projection" THEN "distortion.pipeline"
    ELSE IF c.op = "projection_timewarp" THEN "distortion.timewarp_pipeline"
    ELSE "clear.pipeline"

\* The pipeline layout a pass call binds its descriptor set with.
LayoutOf(c) ==
    IF c.op = "layers" THEN "layer.pipeline_layout" ELSE "distortion.pipeline_layout"

\* The descriptor set a pass call updates.
SetOf(c) ==
    IF c.op = "layers" THEN layer_descriptor_sets[c.args.slot]
    ELSE shared_descriptor_set

\* The pipelines that go with each pipeline layout.
PipelinesOfLayout(layout) ==
    IF layout = "layer.pipeline_layout"
    THEN {"layer.timewarp_pipeline", "layer.non_timewarp_pipeline"}
    ELSE {"distortion.pipeline", "distortion.timewarp_pipeline", "clear.pipeline"}

\* C24: every recorded dispatch directly follows the bind of a descriptor
\* set, which directly follows the bind of a pipeline of the same layout; the
\* dispatch of a pass call follows the bind of that pass's pipeline (for
\* layers the timewarp one iff do_timewarp) and, with that pass's layout, of
\* the descriptor set the call has just updated with its own arguments.
C24_DispatchFollowsItsBinds ==
    /\ \A k \in Positions(cmd.cmds, "Dispatch") :
           /\ k > 2
           /\ cmd.cmds[k - 1].op = "BindDescriptorSets"
           /\ cmd.cmds[k - 2].op = "BindPipeline"
           /\ cmd.cmds[k - 2].pipeline \in PipelinesOfLayout(cmd.cmds[k - 1].layout)
           /\ cmd.cmds[k - 1].set \in Handles
    /\ PassRecordedInFrame =>
           \E k \in DOMAIN CallCmds :
               /\ k > 2
               /\ Positions(CallCmds, "Dispatch") = {k}
               /\ Positions(CallCmds, "BindDescriptorSets") = {k - 1}
               /\ Positions(CallCmds, "BindPipeline") = {k - 2}
               /\ CallCmds[k - 2] = CmdBindPipeline(PipelineOf(call))
               /\ CallCmds[k - 1] = CmdBindDescriptorSets(LayoutOf(call), SetOf(call))
               /\ SetOf(call) \in pool
               /\ sets[SetOf(call)].target =
                      ImageInfo("none", call.args.target_image_view, "GENERAL")

\* A layers pass with time warp has been recorded after a projection_timewarp
\* pass in one frame.
C24_Witness ==
    /\ PassRecordedInFrame
    /\ call.op = "layers"
    /\ call.args.do_timewarp
    /\ \E k \in Positions(cmd.cmds, "BindPipeline") :
           cmd.cmds[k].pipeline = "distortion.timewarp_pipeline"
    /\ \E k \in Positions(cmd.cmds, "BindPipeline") :
           cmd.cmds[k].pipeline = "layer.timewarp_pipeline"

\* The frame in flight holds a dispatch bound to descriptor set s.
InFlightUses(s) ==
    /\ gpu.in_flight
    /\ \E k \in Positions(gpu.cmds, "BindDescriptorSets") : gpu.cmds[k].set = s

\* C25: while the GPU executes a submitted frame and the host records the
\* next one, no step updates the shared descriptor set that a dispatch of the
\* frame in flight uses, and no step resets the command pool of the pending
\* command buffer; keeping one begin/end bracket open at a time is enough.
C25_NoUpdateWhileInFlight ==
    [][(InFlightUses(shared_descriptor_set) /\ gpu'.in_flight) =>
          /\ sets'[shared_descriptor_set] = sets[shared_descriptor_set]
          /\ cmd.state = "pending" => cmd' = cmd]_vars

====
